---- MODULE Spec2Model ----
(***************************************************************************)
(* Sentinel Vault: the client-side vault session (zustand store, vault     *)
(* page handlers, login and register pages) together with the two remote   *)
(* collaborators it talks to (Supabase auth and the profiles / vault_items *)
(* tables).  Cryptography is symbolic: a derived key is the pair           *)
(* (password, salt) it was derived from, a ciphertext records the key, the *)
(* IV and the plaintext it seals, and decryption succeeds exactly when key *)
(* and IV match.                                                           *)
(***************************************************************************)
EXTENDS Integers, Sequences, FiniteSets, TLC

VARIABLES
    page,           \* route currently mounted: "login" | "vault" | "register"
    store,          \* the zustand vault store
    loading,        \* VaultPage: loading
    error,          \* VaultPage: error
    idleTime,       \* VaultPage: idleTimeRef.current
    privacyBlur,    \* document.body has class "privacy-blur"
    hasFocus,       \* the browser window has focus
    session,        \* Supabase auth holds a session for this browser
    idpSecret,      \* the password Supabase auth stores for the account
    profile,        \* the account's row of table profiles
    vaultItems,     \* the rows of table vault_items, newest first
    nextId,         \* number of ids handed out so far (rows and UUIDs)
    now,            \* wall clock, in milliseconds
    unlockOp,       \* handleUnlock: position and locals of the call in flight
    logoutOp,       \* handleLogout: position of the call in flight
    wire,           \* the last request sent to a collaborator
    wrongStreak,    \* consecutive completed unlock attempts with a wrong password
    reg,            \* RegisterPage: component state
    staleOp,        \* handleUnlock: a call in flight whose VaultPage was unmounted
    calls,          \* mutation handlers in flight, in the order they were invoked
    serialFavorite, \* favourite flag of the stored item if its toggles ran in series
    calc            \* a library function being evaluated: its input and result

vars == <<page, store, loading, error, idleTime, privacyBlur, hasFocus, session,
          idpSecret, profile, vaultItems, nextId, now, unlockOp, logoutOp, wire,
          wrongStreak, reg, staleOp, calls, serialFavorite, calc>>

\* ------------------------------------------------------------------------
\* Nullable values: null is the empty tuple, a present value x is <<x>>.
NULL == <<>>
Some(x) == <<x>>
Val(o) == o[1]

Min(a, b) == IF a <= b THEN a ELSE b

\* ------------------------------------------------------------------------
\* Bounds of the model
MaxTime == 2            \* the clock advances at most this many steps
MaxAdds == 1            \* at most this many items are added in a run
MaxIV == 1              \* random IVs are drawn from 1..MaxIV
LockoutThreshold == 2   \* the spec's configured lockout threshold N
MaxTypedLength == 21    \* longest password given to the strength estimate
MaxPattern == 3         \* the random source's output repeats with at most this period
MaxNonceByte == 1       \* the random source fills a nonce with one byte value 0..MaxNonceByte
MaxSeals == 3           \* seals made in a row under one key
MaxInFlight == 2        \* mutation calls awaiting the Record Store at once

\* Program constants
AutoLockMinutes == 5
SecondsPerMinute == 60
MsPerMinute == 60000
DefaultAutoLockMinutes == 5
DefaultClearClipboardSeconds == 30
GeneratedLength == 20
IV_LENGTH == 12
MinPasswordLength == 12
MinPasswordStrength == 50
AuthSecretLength == 60
Base64Sha256Length == 44

\* One clock step is half a minute, so that remaining lockout time is
\* sometimes a fraction of a minute and Math.ceil matters.
ClockStep == MsPerMinute \div 2
Times == {t * ClockStep : t \in 0..MaxTime}

\* ------------------------------------------------------------------------
\* Characters and passwords.  A password is the sequence of its characters.
LowerChars == {"a","b","c","d","e","f","g","h","i","j","k","l","m",
               "n","o","p","q","r","s","t","u","v","w","x","y","z"}
UpperChars == {"A","B","C","D","E","F","G","H","I","J","K","L","M",
               "N","O","P","Q","R","S","T","U","V","W","X","Y","Z"}
DigitChars == {"0","1","2","3","4","5","6","7","8","9"}

HasLower(pw) == \E i \in 1..Len(pw) : pw[i] \in LowerChars
HasUpper(pw) == \E i \in 1..Len(pw) : pw[i] \in UpperChars
HasDigit(pw) == \E i \in 1..Len(pw) : pw[i] \in DigitChars
HasSymbol(pw) == \E i \in 1..Len(pw) :
                    pw[i] \notin LowerChars \cup UpperChars \cup DigitChars

\* The estimate without the fourth length step and without the bonus
estimatePasswordStrengthNoBonus(pw) ==
    LET len == (IF Len(pw) >= 8 THEN 10 ELSE 0) + (IF Len(pw) >= 12 THEN 10 ELSE 0)
             + (IF Len(pw) >= 16 THEN 10 ELSE 0)
        variety == (IF HasLower(pw) THEN 10 ELSE 0) + (IF HasUpper(pw) THEN 10 ELSE 0)
                 + (IF HasDigit(pw) THEN 10 ELSE 0) + (IF HasSymbol(pw) THEN 20 ELSE 0)
    IN  Min(len + variety, 100)

estimatePasswordStrength(pw) ==
    LET len == (IF Len(pw) >= 8 THEN 10 ELSE 0) + (IF Len(pw) >= 12 THEN 10 ELSE 0)
             + (IF Len(pw) >= 16 THEN 10 ELSE 0) + (IF Len(pw) >= 20 THEN 10 ELSE 0)
        variety == (IF HasLower(pw) THEN 10 ELSE 0) + (IF HasUpper(pw) THEN 10 ELSE 0)
                 + (IF HasDigit(pw) THEN 10 ELSE 0) + (IF HasSymbol(pw) THEN 20 ELSE 0)
        bonus == IF Len(pw) >= 16 /\ HasLower(pw) /\ HasUpper(pw)
                    /\ HasDigit(pw) /\ HasSymbol(pw) THEN 20 ELSE 0
    IN  Min(len + variety + bonus, 100)

\* "WrongPass1!!", "Master-Pass1", "short1!", "alllowercase"
PwMaster == <<"M","a","s","t","e","r","-","P","a","s","s","1">>
PwWrong  == <<"W","r","o","n","g","P","a","s","s","1","!","!">>
PwShort  == <<"s","h","o","r","t","1","!">>
PwWeak   == <<"a","l","l","l","o","w","e","r","c","a","s","e">>

UnlockPasswords == {PwMaster, PwWrong}
FormPasswords == {PwMaster, PwShort, PwWeak}

UserId == "user-1"
Email == "user@example.com"
Salts == {"salt-1", "salt-2"}
RegisteredSalt == "salt-1"

\* ------------------------------------------------------------------------
\* lib/crypto

\* bufferToBase64 of a 32-byte digest: an opaque string of 44 characters.
\* A string is modelled by what it encodes and how many of its characters
\* are kept.
bufferToBase64(digest) == [of |-> digest, len |-> Base64Sha256Length]

\* The string a password field holds: its characters are the password itself.
PlainText(password) ==
    [of |-> [kdf |-> "none", password |-> password, salt |-> ""],
     len |-> Len(password)]

\* String.prototype.slice(0, n)
Slice(str, n) == [str EXCEPT !.len = Min(str.len, n)]

\* PBKDF2 output split in two halves; the second half hashed and encoded.
deriveKeys(password, salt) ==
    [encryptionKey   |-> [kdf |-> "enc", password |-> password, salt |-> salt],
     verificationKey |-> bufferToBase64([kdf |-> "ver", password |-> password,
                                         salt |-> salt])]

deriveEncryptionKey(password, salt) == deriveKeys(password, salt).encryptionKey

\* encrypt that ignores the nonce it drew and seals under twelve zero bytes
encryptFixedIv(plaintext, key, iv) ==
    [ciphertext |-> [sealedBy |-> key, sealedIv |-> [i \in 1..IV_LENGTH |-> 0],
                     sealed |-> plaintext],
     iv |-> [i \in 1..IV_LENGTH |-> 0]]

\* AES-GCM: the ciphertext is opaque; it opens only under the key and IV
\* that sealed it.
encrypt(plaintext, key, iv) ==
    [ciphertext |-> [sealedBy |-> key, sealedIv |-> iv, sealed |-> plaintext],
     iv |-> iv]

CanDecrypt(ciphertext, iv, key) ==
    /\ ciphertext.sealedBy = key
    /\ ciphertext.sealedIv = iv

decrypt(ciphertext, iv, key) == ciphertext.sealed

\* JSON.stringify writes every property of the object it is given (the
\* dialogs pass title, username, password, url and notes, all strings);
\* JSON.parse returns an object with those properties.
Stringify(data) == [json |-> data]
Parse(text) == text.json

encryptVaultItem(payload, key, iv) == encrypt(Stringify(payload), key, iv)

\* decryptVaultItem that loses the notes
decryptVaultItemNoNotes(ciphertext, iv, key) ==
    [Parse(decrypt(ciphertext, iv, key)) EXCEPT !.notes = ""]
decryptVaultItem(ciphertext, iv, key) == Parse(decrypt(ciphertext, iv, key))

IVs == 1..MaxIV

\* {...a, ...b}
Merge(a, b) ==
    [f \in DOMAIN a \cup DOMAIN b |-> IF f \in DOMAIN b THEN b[f] ELSE a[f]]

\* ------------------------------------------------------------------------
\* store/vaultStore: the initial state and the actions, each as the store
\* value it produces

InitialStore ==
    [isAuthenticated |-> FALSE, userId |-> NULL, email |-> NULL,
     encryptionKey |-> NULL, salt |-> NULL, isUnlocked |-> FALSE,
     items |-> <<>>, categories |-> <<>>,
     isLoading |-> FALSE, error |-> NULL,
     autoLockMinutes |-> DefaultAutoLockMinutes,
     clearClipboardSeconds |-> DefaultClearClipboardSeconds]

\* setAuthenticated that also marks the vault unlocked
setAuthenticatedUnlocked(s, userId, email) ==
    [s EXCEPT !.isAuthenticated = TRUE, !.userId = Some(userId),
              !.email = Some(email), !.isUnlocked = TRUE]

setAuthenticated(s, userId, email) ==
    [s EXCEPT !.isAuthenticated = TRUE, !.userId = Some(userId),
              !.email = Some(email)]

setUnlocked(s, key, salt) ==
    [s EXCEPT !.encryptionKey = Some(key), !.salt = Some(salt),
              !.isUnlocked = TRUE]

setVaultData(s, items, categories) ==
    [s EXCEPT !.items = items, !.categories = categories]

addItem(s, item) == [s EXCEPT !.items = <<item>> \o s.items]

updateItem(s, id, updates) ==
    [s EXCEPT !.items = [i \in 1..Len(s.items) |->
                            IF s.items[i].id = id THEN Merge(s.items[i], updates)
                                                  ELSE s.items[i]]]

removeItem(s, id) ==
    [s EXCEPT !.items = SelectSeq(s.items, LAMBDA item : item.id # id)]

setPreferences(s, autoLockMinutes, clearClipboardSeconds) ==
    [s EXCEPT !.autoLockMinutes = autoLockMinutes,
              !.clearClipboardSeconds = clearClipboardSeconds]

\* lockVault that leaves the decrypted items in the cache
lockVaultKeepsItems(s) ==
    [s EXCEPT !.encryptionKey = NULL, !.salt = NULL, !.isUnlocked = FALSE]

lockVault(s) ==
    [s EXCEPT !.encryptionKey = NULL, !.salt = NULL, !.isUnlocked = FALSE,
              !.items = <<>>]

\* logout that leaves the encryption key in memory
logoutKeepsKey(s) ==
    [s EXCEPT !.isAuthenticated = FALSE, !.userId = NULL, !.email = NULL,
              !.isUnlocked = FALSE, !.items = <<>>, !.categories = <<>>]

logout(s) ==
    [s EXCEPT !.isAuthenticated = FALSE, !.userId = NULL, !.email = NULL,
              !.encryptionKey = NULL, !.salt = NULL, !.isUnlocked = FALSE,
              !.items = <<>>, !.categories = <<>>]

\* ------------------------------------------------------------------------
\* The Record Store (tables profiles and vault_items) as the client sees it

RowId(n) == <<"row", n>>
Uuid(n) == <<"uuid", n>>

\* insert: the table assigns the id and the column defaults
DbInsert(rows, n, rec) ==
    <<Merge([id |-> RowId(n), category_id |-> NULL, is_favorite |-> FALSE], rec)>>
        \o rows

\* update(fields).eq("id", id).eq("user_id", userId)
DbUpdate(rows, id, userId, fields) ==
    [i \in 1..Len(rows) |->
        IF rows[i].id = id /\ rows[i].user_id = userId
        THEN Merge(rows[i], fields) ELSE rows[i]]

\* delete().eq("id", id).eq("user_id", userId)
DbDelete(rows, id, userId) ==
    SelectSeq(rows, LAMBDA r : ~(r.id = id /\ r.user_id = userId))

\* select("*").eq("user_id", userId).order("created_at", descending)
getVaultItems(rows, userId) == SelectSeq(rows, LAMBDA r : r.user_id = userId)

\* A loop that gives up on all rows when one of them fails to decrypt
DecryptAllOrNothing(rows, key) ==
    IF \A i \in 1..Len(rows) : CanDecrypt(rows[i].ciphertext, rows[i].iv, key)
    THEN [i \in 1..Len(rows) |->
            LET payload == decryptVaultItem(rows[i].ciphertext, rows[i].iv, key)
            IN  Merge(rows[i],
                      [username |-> payload.username, password |-> payload.password,
                       url |-> payload.url, notes |-> payload.notes])]
    ELSE <<>>

\* handleUnlock's loop: rows that decrypt, in order, each with its payload
DecryptAll(rows, key) ==
    LET opened == SelectSeq(rows, LAMBDA r : CanDecrypt(r.ciphertext, r.iv, key))
    IN  [i \in 1..Len(opened) |->
            LET payload == decryptVaultItem(opened[i].ciphertext, opened[i].iv, key)
            IN  Merge(opened[i],
                      [username |-> payload.username, password |-> payload.password,
                       url |-> payload.url, notes |-> payload.notes])]

\* What the user types into the add and edit dialogs
ItemA == [title |-> "Example", username |-> "u@example.com",
          password |-> "p@ss1234", url |-> "https://example.com", notes |-> ""]
ItemB == [title |-> "Bank", username |-> "alice", password |-> "hunter2",
          url |-> "", notes |-> "pin 0000"]
ItemInputs == {ItemA, ItemB}

MasterKey == deriveEncryptionKey(PwMaster, RegisteredSalt)

\* A row written in an earlier session under the registered master password
SeedRow ==
    [id |-> RowId(0), user_id |-> UserId, title |-> ItemB.title,
     ciphertext |-> encryptVaultItem(ItemB, MasterKey, 1).ciphertext,
     iv |-> 1, auth_tag |-> "", category_id |-> NULL, is_favorite |-> FALSE]

InitialVaults == {<<>>, <<SeedRow>>}

\* The profile row of the registered account
RegisteredProfile(lockedUntil) ==
    [id |-> UserId, email |-> Email, kdf_salt |-> RegisteredSalt,
     verifier_hash |-> Some(deriveKeys(PwMaster, RegisteredSalt).verificationKey),
     failed_unlock_attempts |-> 0,
     failed_unlock_locked_until |-> lockedUntil]

NoUnlock == [pc |-> "idle", password |-> NULL, userId |-> NULL,
             key |-> NULL, salt |-> NULL, derived |-> FALSE,
             fetchedItems |-> FALSE, mounted |-> FALSE]

\* No library function is being evaluated
NoCalc == [fn |-> "none"]

\* RegisterPage's initial component state.  The repository holds two
\* versions of the page; flow says which one is deployed.
InitialReg ==
    [step |-> "credentials", password |-> <<>>, confirmPassword |-> <<>>,
     confirmationText |-> "", confirmedUnderstand |-> FALSE, error |-> NULL,
     flow |-> "none"]

\* ------------------------------------------------------------------------
\* The state an account is in once it has been registered and confirmed:
\* nobody is signed in, the login page is showing.

Init ==
    /\ page = "login"
    /\ store = InitialStore
    /\ loading = FALSE
    /\ error = NULL
    /\ idleTime = 0
    /\ privacyBlur = FALSE
    /\ hasFocus = TRUE
    /\ session = FALSE
    /\ idpSecret = Some(Slice(deriveKeys(PwMaster, RegisteredSalt).verificationKey,
                              AuthSecretLength))
    /\ \E lockedUntil \in {NULL} \cup {Some(t) : t \in Times \ {0}} :
          profile = Some(RegisteredProfile(lockedUntil))
    /\ vaultItems \in InitialVaults
    /\ nextId = 1
    /\ now = 0
    /\ unlockOp = NoUnlock
    /\ logoutOp = "idle"
    /\ wire = <<>>
    /\ wrongStreak = 0
    /\ reg = InitialReg
    /\ staleOp = NoUnlock
    /\ calls = <<>>
    /\ serialFavorite = FALSE
    /\ calc = NoCalc

\* Variables only the steps that come with them touch
auxVars == <<staleOp, calls, serialFavorite, calc>>
\* Variables of the collaborators
remoteVars == <<session, idpSecret, profile, vaultItems, nextId>>
\* VaultPage component state
localVars == <<loading, error, idleTime>>

\* ------------------------------------------------------------------------
\* app/login/page.tsx

\* handleLogin: fetch the salt, derive the verifier, sign in with its first
\* 60 characters; on success go to /vault (a fresh VaultPage is mounted).
handleLogin(password) ==
    /\ page = "login"
    /\ hasFocus
    /\ LET saltRequest == [to |-> "store", op |-> "rpc:get_user_salt",
                           body |-> [email_input |-> Email]]
       IN
       IF profile = NULL
       THEN /\ wire' = <<saltRequest>>
            /\ UNCHANGED <<page, session>>
       ELSE LET salt == Val(profile).kdf_salt
                verificationKey == deriveKeys(password, salt).verificationKey
                authSecret == Slice(verificationKey, AuthSecretLength)
                signIn == [to |-> "idp", op |-> "signInWithPassword",
                           body |-> [email |-> Email, password |-> authSecret]]
            IN  /\ wire' = <<saltRequest, signIn>>
                /\ IF idpSecret = Some(authSecret)
                   THEN /\ session' = TRUE
                        /\ page' = "vault"
                   ELSE /\ UNCHANGED <<page, session>>
    /\ UNCHANGED <<store, localVars, privacyBlur, hasFocus, idpSecret, profile,
                   vaultItems, nextId, now, unlockOp, logoutOp, wrongStreak, reg, auxVars>>

\* ------------------------------------------------------------------------
\* app/vault/page.tsx

\* Leaving /vault unmounts VaultPage: its state is gone, the blur effect's
\* cleanup removes the class, and a handleUnlock call still in flight belongs
\* to no mounted component any more.
Unmounted(op) == [op EXCEPT !.mounted = FALSE]

\* The blur effect depends on isUnlocked: when it changes, the effect's
\* cleanup runs and removes the class.
BlurAfter(newStore) ==
    IF newStore.isUnlocked # store.isUnlocked THEN FALSE ELSE privacyBlur

\* checkAuth, on mount
checkAuth ==
    /\ page = "vault"
    /\ ~store.isAuthenticated
    /\ IF session
       THEN /\ store' = setAuthenticated(store, UserId, Email)
            /\ UNCHANGED <<page, unlockOp>>
       ELSE /\ page' = "login"
            /\ unlockOp' = Unmounted(unlockOp)
            /\ UNCHANGED store
    /\ wire' = <<[to |-> "idp", op |-> "getSession", body |-> <<>>]>>
    /\ UNCHANGED <<localVars, privacyBlur, hasFocus, remoteVars, now, logoutOp,
                   wrongStreak, reg, auxVars>>

\* handleLock
handleLock ==
    /\ page = "vault"
    /\ store.isAuthenticated /\ store.isUnlocked
    /\ hasFocus
    /\ store' = lockVault(store)
    /\ privacyBlur' = BlurAfter(store')
    /\ UNCHANGED <<page, localVars, hasFocus, remoteVars, now, unlockOp, logoutOp,
                   wire, wrongStreak, reg, auxVars>>

\* The idle timer's interval callback, run k times in a row with no other
\* event in between.  The interval exists while isUnlocked, so the callbacks
\* stop with the one that locks.
IdleTicks(k) ==
    /\ page = "vault"
    /\ store.isUnlocked
    /\ IF idleTime + k >= AutoLockMinutes * SecondsPerMinute
       THEN /\ store' = lockVault(store)
            /\ idleTime' = 0
       ELSE /\ idleTime' = idleTime + k
            /\ UNCHANGED store
    /\ privacyBlur' = BlurAfter(store')
    /\ UNCHANGED <<page, loading, error, hasFocus, remoteVars, now, unlockOp,
                   logoutOp, wire, wrongStreak, reg, auxVars>>

\* One second passes
IdleTick == IdleTicks(1)

\* One minute passes
IdleMinute == IdleTicks(SecondsPerMinute)

\* resetTimer, on mousemove, keydown, click and scroll; registered while
\* isUnlocked
resetTimer ==
    /\ page = "vault"
    /\ store.isUnlocked
    /\ hasFocus
    /\ idleTime' = 0
    /\ UNCHANGED <<page, store, loading, error, privacyBlur, hasFocus, remoteVars,
                   now, unlockOp, logoutOp, wire, wrongStreak, reg, auxVars>>

\* A blur handler that locks the vault
handleBlurLocks ==
    /\ page = "vault"
    /\ hasFocus
    /\ hasFocus' = FALSE
    /\ store' = IF store.isUnlocked THEN lockVault(store) ELSE store
    /\ privacyBlur' = BlurAfter(store')
    /\ UNCHANGED <<page, localVars, remoteVars, now, unlockOp, logoutOp, wire,
                   wrongStreak, reg, auxVars>>

\* handleBlur, on the window's blur event
handleBlur ==
    /\ page = "vault"
    /\ hasFocus
    /\ hasFocus' = FALSE
    /\ privacyBlur' = IF store.isUnlocked THEN TRUE ELSE privacyBlur
    /\ UNCHANGED <<page, store, localVars, remoteVars, now, unlockOp, logoutOp,
                   wire, wrongStreak, reg, auxVars>>

\* handleFocus, on the window's focus event
handleFocus ==
    /\ page = "vault"
    /\ ~hasFocus
    /\ hasFocus' = TRUE
    /\ privacyBlur' = FALSE
    /\ UNCHANGED <<page, store, localVars, remoteVars, now, unlockOp, logoutOp,
                   wire, wrongStreak, reg, auxVars>>

\* Math.ceil(a / b) for a > 0
Ceil(a, b) == (a + b - 1) \div b

\* When handleUnlock returns its locals are gone; what stays observable is
\* whether the call derived a key and whether it asked for the items.
Returned(op) ==
    [NoUnlock EXCEPT !.derived = op.derived, !.fetchedItems = op.fetchedItems]

\* A catch after a setUnlocked that was done as soon as the key was derived
UnlockFailsKeyInstalled(err) ==
    /\ error' = IF unlockOp.mounted THEN Some(err) ELSE error
    /\ loading' = IF unlockOp.mounted THEN FALSE ELSE loading
    /\ unlockOp' = Returned(unlockOp)
    /\ store' = IF unlockOp.key = NULL THEN store
                ELSE setUnlocked(store, Val(unlockOp.key), Val(unlockOp.salt))
    /\ UNCHANGED <<privacyBlur, wrongStreak>>

\* handleUnlock's catch and finally: setError(message), setLoading(false).
\* The setters of a component that is no longer mounted do nothing.
UnlockFails(err) ==
    /\ error' = IF unlockOp.mounted THEN Some(err) ELSE error
    /\ loading' = IF unlockOp.mounted THEN FALSE ELSE loading
    /\ unlockOp' = Returned(unlockOp)
    /\ UNCHANGED <<store, privacyBlur, wrongStreak>>

\* handleUnlock, up to its first await: getProfile(userId)
handleUnlockSubmit(password) ==
    /\ page = "vault"
    /\ store.isAuthenticated /\ ~store.isUnlocked
    /\ hasFocus
    /\ ~loading
    /\ unlockOp.pc = "idle"
    /\ IF store.userId = NULL
       THEN /\ error' = Some([message |-> "Not authenticated"])
            /\ loading' = FALSE
            /\ unlockOp' = NoUnlock
            /\ UNCHANGED wire
       ELSE /\ error' = NULL
            /\ loading' = TRUE
            /\ unlockOp' = [NoUnlock EXCEPT !.pc = "getProfile",
                                            !.password = Some(password),
                                            !.userId = store.userId,
                                            !.mounted = TRUE]
            /\ wire' = <<[to |-> "store", op |-> "profiles.select",
                          body |-> [id |-> Val(store.userId)]]>>
    /\ UNCHANGED <<page, store, idleTime, privacyBlur, hasFocus, remoteVars, now,
                   logoutOp, wrongStreak, reg, auxVars>>

\* A lockout check with the comparison the wrong way round
IsLockedOutReversed(profileRow, t) ==
    /\ profileRow.failed_unlock_locked_until # NULL
    /\ Val(profileRow.failed_unlock_locked_until) < t

\* handleUnlock's lockout check on the profile it fetched
IsLockedOut(profileRow, t) ==
    /\ profileRow.failed_unlock_locked_until # NULL
    /\ Val(profileRow.failed_unlock_locked_until) > t

\* handleUnlock, from getProfile's answer to its next await: the lockout
\* check, deriveEncryptionKey, then getVaultItems(userId)
handleUnlockProfile(ok) ==
    /\ unlockOp.pc = "getProfile"
    /\ IF ~ok \/ profile = NULL
       THEN /\ UnlockFails([message |-> "store error"])
            /\ UNCHANGED wire
       ELSE LET lockedUntil == Val(profile).failed_unlock_locked_until
                salt == Val(profile).kdf_salt
            IN  IF IsLockedOut(Val(profile), now)
                THEN /\ UnlockFails(
                            [message |-> "Account locked",
                             minutes |-> Ceil(Val(lockedUntil) - now, MsPerMinute)])
                     /\ UNCHANGED wire
                ELSE /\ unlockOp' =
                          [unlockOp EXCEPT
                              !.pc = "getVaultItems",
                              !.key = Some(deriveEncryptionKey(Val(unlockOp.password),
                                                               salt)),
                              !.salt = Some(salt),
                              !.derived = TRUE,
                              !.fetchedItems = TRUE]
                     /\ wire' = <<[to |-> "store", op |-> "vault_items.select",
                                   body |-> [user_id |-> Val(unlockOp.userId)]]>>
                     /\ UNCHANGED <<store, loading, error, privacyBlur, wrongStreak>>
    /\ UNCHANGED <<page, idleTime, hasFocus, remoteVars, now, logoutOp, reg, auxVars>>

\* handleUnlock, from getVaultItems' answer to the end: decrypt what
\* decrypts, setUnlocked, setVaultData, setLoading(false)
handleUnlockItems(ok) ==
    /\ unlockOp.pc = "getVaultItems"
    /\ IF ~ok
       THEN UnlockFails([message |-> "store error"])
       ELSE LET key == Val(unlockOp.key)
                rows == getVaultItems(vaultItems, Val(unlockOp.userId))
                decryptedItems == DecryptAll(rows, key)
            IN  /\ store' = setVaultData(
                                setUnlocked(store, key, Val(unlockOp.salt)),
                                decryptedItems, <<>>)
                /\ privacyBlur' = BlurAfter(store')
                /\ loading' = IF unlockOp.mounted THEN FALSE ELSE loading
                /\ unlockOp' = Returned(unlockOp)
                /\ wrongStreak' = IF Val(unlockOp.password) = PwMaster THEN 0
                                  ELSE Min(wrongStreak + 1, LockoutThreshold)
                /\ UNCHANGED error
    /\ UNCHANGED <<page, idleTime, hasFocus, remoteVars, now, logoutOp, wire, reg, auxVars>>

\* handleLogout, up to its await: supabase.auth.signOut()
handleLogoutSubmit ==
    /\ page = "vault"
    /\ store.isAuthenticated
    /\ hasFocus
    /\ logoutOp = "idle"
    /\ session' = FALSE
    /\ logoutOp' = "signOut"
    /\ wire' = <<[to |-> "idp", op |-> "signOut", body |-> <<>>]>>
    /\ UNCHANGED <<page, store, localVars, privacyBlur, hasFocus, idpSecret, profile,
                   vaultItems, nextId, now, unlockOp, wrongStreak, reg, auxVars>>

\* handleLogout, after signOut: logout(), router.push("/login")
handleLogoutDone ==
    /\ logoutOp = "signOut"
    /\ logoutOp' = "idle"
    /\ store' = logout(store)
    /\ page' = "login"
    /\ loading' = FALSE
    /\ error' = NULL
    /\ idleTime' = 0
    /\ privacyBlur' = FALSE
    /\ unlockOp' = Unmounted(unlockOp)
    /\ UNCHANGED <<hasFocus, remoteVars, now, wire, wrongStreak, reg, auxVars>>

\* ------------------------------------------------------------------------
\* components/vault/SettingsDialog.tsx

ConfirmationTexts == {"DELETE", "delete"}

\* handleDeleteAccount: the dialog is part of the unlocked vault view
handleDeleteAccount(confirmationText, ok) ==
    /\ page = "vault"
    /\ store.isAuthenticated /\ store.isUnlocked
    /\ hasFocus
    /\ IF confirmationText # "DELETE"
       THEN /\ UNCHANGED <<page, store, localVars, privacyBlur, remoteVars, unlockOp,
                           wire>>
       ELSE /\ wire' = <<[to |-> "store", op |-> "rpc:delete_user_account",
                          body |-> <<>>]>>
                        \o (IF ok THEN <<[to |-> "idp", op |-> "signOut",
                                          body |-> <<>>]>>
                                  ELSE <<>>)
            /\ IF ~ok
               THEN /\ UNCHANGED <<page, store, localVars, privacyBlur, remoteVars,
                                   unlockOp>>
               ELSE /\ profile' = NULL
                    /\ idpSecret' = NULL
                    /\ vaultItems' = SelectSeq(vaultItems,
                                               LAMBDA r : r.user_id # Val(store.userId))
                    /\ session' = FALSE
                    /\ store' = logout(store)
                    /\ page' = "login"
                    /\ loading' = FALSE
                    /\ error' = NULL
                    /\ idleTime' = 0
                    /\ privacyBlur' = FALSE
                    /\ unlockOp' = Unmounted(unlockOp)
                    /\ UNCHANGED nextId
    /\ UNCHANGED <<hasFocus, now, logoutOp, wrongStreak, reg, auxVars>>

\* ------------------------------------------------------------------------
\* app/vault/page.tsx: the mutations of the unlocked view

MainView == page = "vault" /\ store.isAuthenticated /\ store.isUnlocked /\ hasFocus

\* An insert that also sends the password in the clear
InsertRecordWithPassword(userId, data, sealed) ==
    [user_id |-> userId, title |-> data.title, ciphertext |-> sealed.ciphertext,
     iv |-> sealed.iv, auth_tag |-> "", password |-> data.password]

\* The record onAdd inserts into vault_items
InsertRecord(userId, data, sealed) ==
    [user_id |-> userId, title |-> data.title, ciphertext |-> sealed.ciphertext,
     iv |-> sealed.iv, auth_tag |-> ""]

\* The fields handleUpdateItem writes to the row
UpdateFields(data, sealed, t) ==
    [title |-> data.title, ciphertext |-> sealed.ciphertext, iv |-> sealed.iv,
     last_modified |-> t]

\* onAdd offered on the lock screen as well, sealing under the key a running
\* unlock has derived when the store holds none
onAddDuringUnlock(data, iv, ok) ==
    /\ page = "vault" /\ store.isAuthenticated /\ hasFocus
    /\ nextId <= MaxAdds
    /\ store.encryptionKey # NULL \/ unlockOp.key # NULL
    /\ LET key == IF store.encryptionKey # NULL THEN Val(store.encryptionKey)
                  ELSE Val(unlockOp.key)
           sealed == encryptVaultItem(data, key, iv)
           record == InsertRecord(Val(store.userId), data, sealed)
       IN  /\ wire' = <<[to |-> "store", op |-> "vault_items.insert", body |-> record]>>
           /\ vaultItems' = IF ok THEN DbInsert(vaultItems, nextId, record) ELSE vaultItems
           /\ nextId' = IF ok THEN nextId + 1 ELSE nextId
           /\ store' = IF ok THEN addItem(store, DbInsert(<<>>, nextId, record)[1]) ELSE store
    /\ UNCHANGED <<page, localVars, privacyBlur, hasFocus, session, idpSecret,
                   profile, now, unlockOp, logoutOp, wrongStreak, reg, auxVars>>

\* AddItemDialog's onAdd
onAdd(data, iv, ok) ==
    /\ MainView
    /\ nextId <= MaxAdds
    /\ IF store.encryptionKey = NULL
       THEN /\ UNCHANGED <<store, vaultItems, nextId, wire>>
       ELSE LET sealed == encryptVaultItem(data, Val(store.encryptionKey), iv)
                record == InsertRecord(Val(store.userId), data, sealed)
                cached == [id |-> Uuid(nextId), title |-> data.title,
                           ciphertext |-> sealed.ciphertext, iv |-> sealed.iv,
                           auth_tag |-> "", category_id |-> NULL,
                           is_favorite |-> FALSE, last_accessed |-> now,
                           last_modified |-> now, created_at |-> now,
                           username |-> data.username,
                           password |-> data.password, url |-> data.url,
                           notes |-> data.notes]
            IN  /\ wire' = <<[to |-> "store", op |-> "vault_items.insert",
                              body |-> record]>>
                /\ IF ok
                   THEN /\ vaultItems' = DbInsert(vaultItems, nextId, record)
                        /\ nextId' = nextId + 1
                        /\ store' = addItem(store, cached)
                   ELSE /\ UNCHANGED <<store, vaultItems, nextId>>
    /\ UNCHANGED <<page, localVars, privacyBlur, hasFocus, session, idpSecret,
                   profile, now, unlockOp, logoutOp, wrongStreak, reg, auxVars>>

\* handleUpdateItem, for the item of the card that was clicked
handleUpdateItem(i, data, iv, ok) ==
    /\ MainView
    /\ i \in 1..Len(store.items)
    /\ IF store.encryptionKey = NULL
       THEN /\ UNCHANGED <<store, vaultItems, wire, error>>
       ELSE LET selectedItem == store.items[i]
                sealed == encryptVaultItem(data, Val(store.encryptionKey), iv)
                fields == UpdateFields(data, sealed, now)
            IN  /\ wire' = <<[to |-> "store", op |-> "vault_items.update",
                              body |-> fields,
                              filter |-> [id |-> selectedItem.id,
                                          user_id |-> Val(store.userId)]]>>
                /\ IF ok
                   THEN /\ vaultItems' = DbUpdate(vaultItems, selectedItem.id,
                                                  Val(store.userId), fields)
                        /\ store' = updateItem(store, selectedItem.id,
                               Merge(fields, [username |-> data.username,
                                              password |-> data.password,
                                              url |-> data.url,
                                              notes |-> data.notes]))
                        /\ UNCHANGED error
                   ELSE /\ error' = Some([message |-> "Failed to update item"])
                        /\ UNCHANGED <<store, vaultItems>>
    /\ UNCHANGED <<page, loading, idleTime, privacyBlur, hasFocus, session, idpSecret,
                   profile, nextId, now, unlockOp, logoutOp, wrongStreak, reg, auxVars>>

\* handleToggleFavorite, for the item of the card whose star was clicked
handleToggleFavorite(i, ok) ==
    /\ MainView
    /\ i \in 1..Len(store.items)
    /\ LET itemId == store.items[i].id
           currentStatus == store.items[i].is_favorite
       IN  /\ wire' = <<[to |-> "store", op |-> "vault_items.update",
                         body |-> [is_favorite |-> ~currentStatus],
                         filter |-> [id |-> itemId, user_id |-> Val(store.userId)]]>>
           /\ IF ok
              THEN /\ vaultItems' = DbUpdate(vaultItems, itemId, Val(store.userId),
                                             [is_favorite |-> ~currentStatus])
                   /\ store' = updateItem(store, itemId,
                                          [is_favorite |-> ~currentStatus])
              ELSE /\ UNCHANGED <<store, vaultItems>>
    /\ UNCHANGED <<page, localVars, privacyBlur, hasFocus, session, idpSecret,
                   profile, nextId, now, unlockOp, logoutOp, wrongStreak, reg, auxVars>>

\* The delete confirmation's onClick: the answer of the delete call is not
\* looked at
onDeleteConfirm(i, ok) ==
    /\ MainView
    /\ i \in 1..Len(store.items)
    /\ LET itemToDelete == store.items[i].id
       IN  /\ wire' = <<[to |-> "store", op |-> "vault_items.delete",
                         body |-> <<>>,
                         filter |-> [id |-> itemToDelete,
                                     user_id |-> Val(store.userId)]]>>
           /\ vaultItems' = IF ok THEN DbDelete(vaultItems, itemToDelete,
                                                Val(store.userId))
                                  ELSE vaultItems
           /\ store' = removeItem(store, itemToDelete)
    /\ UNCHANGED <<page, localVars, privacyBlur, hasFocus, session, idpSecret,
                   profile, nextId, now, unlockOp, logoutOp, wrongStreak, reg, auxVars>>

\* ------------------------------------------------------------------------
\* The store's setPreferences action (the spec's setAutoLockMinutes).  No
\* component calls it; it is open to any caller holding the store.
AutoLockChoices == {1, DefaultAutoLockMinutes}

SetPreferences(autoLockMinutes) ==
    /\ store.isAuthenticated
    /\ store.autoLockMinutes # autoLockMinutes
    /\ store' = setPreferences(store, autoLockMinutes, store.clearClipboardSeconds)
    /\ UNCHANGED <<page, localVars, privacyBlur, hasFocus, remoteVars, now, unlockOp,
                   logoutOp, wire, wrongStreak, reg, auxVars>>

\* Time passes
ClockAdvance ==
    /\ now < MaxTime * ClockStep
    /\ now' = now + ClockStep
    /\ UNCHANGED <<page, store, localVars, privacyBlur, hasFocus, remoteVars,
                   unlockOp, logoutOp, wire, wrongStreak, reg, auxVars>>

\* ------------------------------------------------------------------------
\* app/register/page.tsx

RegisterFlows == {"email-confirmation", "profile-upsert"}
UnderstandTexts == {"I UNDERSTAND", "i understand"}
SignUpOutcomes == {"ok", "authError", "profileError"}

vaultVars == <<store, loading, error, idleTime, privacyBlur, hasFocus, now,
               unlockOp, logoutOp, wrongStreak, auxVars>>

\* Nobody has an account yet; the register page is showing.
InitRegister ==
    /\ page = "register"
    /\ store = InitialStore
    /\ loading = FALSE
    /\ error = NULL
    /\ idleTime = 0
    /\ privacyBlur = FALSE
    /\ hasFocus = TRUE
    /\ session = FALSE
    /\ idpSecret = NULL
    /\ profile = NULL
    /\ vaultItems = <<>>
    /\ nextId = 1
    /\ now = 0
    /\ unlockOp = NoUnlock
    /\ logoutOp = "idle"
    /\ wire = <<>>
    /\ wrongStreak = 0
    /\ \E flow \in RegisterFlows : reg = [InitialReg EXCEPT !.flow = flow]
    /\ staleOp = NoUnlock
    /\ calls = <<>>
    /\ serialFavorite = FALSE
    /\ calc = NoCalc

\* onChange of the password field
setPassword(value) ==
    /\ page = "register"
    /\ reg.step = "credentials"
    /\ reg.password # value
    /\ reg' = [reg EXCEPT !.password = value]
    /\ UNCHANGED <<page, vaultVars, remoteVars, wire>>

\* onChange of the confirm-password field
setConfirmPassword(value) ==
    /\ page = "register"
    /\ reg.step = "credentials"
    /\ reg.confirmPassword # value
    /\ reg' = [reg EXCEPT !.confirmPassword = value]
    /\ UNCHANGED <<page, vaultVars, remoteVars, wire>>

\* handleContinue without the strength check
handleContinueAnyStrength ==
    /\ page = "register"
    /\ reg.step = "credentials"
    /\ reg.password # <<>> /\ reg.confirmPassword # <<>>
    /\ reg' =
         IF reg.password # reg.confirmPassword
         THEN [reg EXCEPT !.error = Some("Passwords do not match")]
         ELSE IF Len(reg.password) < MinPasswordLength
         THEN [reg EXCEPT !.error = Some("Password must be at least 12 characters")]
         ELSE [reg EXCEPT !.step = "warning"]
    /\ UNCHANGED <<page, vaultVars, remoteVars, wire>>

\* handleContinue.  The form's fields are required: the browser does not
\* submit it while one of them is empty.
handleContinue ==
    /\ page = "register"
    /\ reg.step = "credentials"
    /\ reg.password # <<>> /\ reg.confirmPassword # <<>>
    /\ reg' =
         IF reg.password # reg.confirmPassword
         THEN [reg EXCEPT !.error = Some("Passwords do not match")]
         ELSE IF Len(reg.password) < MinPasswordLength
         THEN [reg EXCEPT !.error = Some("Password must be at least 12 characters")]
         ELSE IF estimatePasswordStrength(reg.password) < MinPasswordStrength
         THEN [reg EXCEPT !.error = Some("Please choose a stronger password")]
         ELSE [reg EXCEPT !.step = "warning"]
    /\ UNCHANGED <<page, vaultVars, remoteVars, wire>>

\* onChange of the confirmation field of the warning step
setConfirmationText(text) ==
    /\ page = "register"
    /\ reg.step = "warning"
    /\ reg.confirmationText # text
    /\ reg' = [reg EXCEPT !.confirmationText = text,
                          !.confirmedUnderstand = (text = "I UNDERSTAND")]
    /\ UNCHANGED <<page, vaultVars, remoteVars, wire>>

\* Go Back
goBack ==
    /\ page = "register"
    /\ reg.step = "warning"
    /\ reg' = [reg EXCEPT !.step = "credentials"]
    /\ UNCHANGED <<page, vaultVars, remoteVars, wire>>

\* The profile row of a new account
NewProfile(salt, verifierHash) ==
    [id |-> UserId, email |-> Email, kdf_salt |-> salt,
     verifier_hash |-> verifierHash, failed_unlock_attempts |-> 0,
     failed_unlock_locked_until |-> NULL]

\* handleRegister of the version that asks for an email confirmation: the
\* auth password is the first 60 characters of the verification key, the
\* salt travels as user metadata and the profile row is made from it.
handleRegisterConfirm(salt, outcome) ==
    /\ page = "register"
    /\ reg.flow = "email-confirmation"
    /\ reg.step = "warning"
    /\ reg.confirmedUnderstand
    /\ LET verificationKey == deriveKeys(reg.password, salt).verificationKey
           authSecret == Slice(verificationKey, AuthSecretLength)
       IN  /\ wire' = <<[to |-> "idp", op |-> "signUp",
                         body |-> [email |-> Email, password |-> authSecret,
                                   kdf_salt |-> salt]]>>
           /\ IF outcome = "ok" /\ idpSecret = NULL
              THEN /\ idpSecret' = Some(authSecret)
                   /\ profile' = Some(NewProfile(salt, NULL))
                   /\ reg' = [reg EXCEPT !.step = "success", !.error = NULL]
              ELSE /\ reg' = [reg EXCEPT !.error = Some("Registration failed")]
                   /\ UNCHANGED <<idpSecret, profile>>
    /\ UNCHANGED <<page, vaultVars, session, vaultItems, nextId>>

\* handleRegister of the version that writes the profile itself: signUp with
\* the password field's value, then upsert the profile row.
handleRegisterUpsert(salt, outcome) ==
    /\ page = "register"
    /\ reg.flow = "profile-upsert"
    /\ reg.step = "warning"
    /\ reg.confirmedUnderstand
    /\ LET verificationKey == deriveKeys(reg.password, salt).verificationKey
           signUp == [to |-> "idp", op |-> "signUp",
                      body |-> [email |-> Email,
                                password |-> PlainText(reg.password)]]
           upsert == [to |-> "store", op |-> "profiles.upsert",
                      body |-> [id |-> UserId, email |-> Email, kdf_salt |-> salt,
                                verifier_hash |-> verificationKey,
                                auto_lock_minutes |-> DefaultAutoLockMinutes,
                                clear_clipboard_seconds |->
                                    DefaultClearClipboardSeconds]]
       IN  IF outcome = "authError" \/ idpSecret # NULL
           THEN /\ wire' = <<signUp>>
                /\ reg' = [reg EXCEPT !.error = Some("Registration failed")]
                /\ UNCHANGED <<page, idpSecret, profile>>
           ELSE /\ wire' = <<signUp, upsert>>
                /\ idpSecret' = Some(PlainText(reg.password))
                /\ IF outcome = "profileError"
                   THEN /\ reg' = [reg EXCEPT !.error = Some("Registration failed")]
                        /\ UNCHANGED <<page, profile>>
                   ELSE /\ profile' = Some(NewProfile(salt, Some(verificationKey)))
                        /\ page' = "login"
                        /\ reg' = [reg EXCEPT !.step = "processing", !.error = NULL]
    /\ UNCHANGED <<vaultVars, session, vaultItems, nextId>>

\* The success screen's link to /login
goToLogin ==
    /\ page = "register"
    /\ reg.step = "success"
    /\ page' = "login"
    /\ UNCHANGED <<reg, vaultVars, remoteVars, wire>>

\* ------------------------------------------------------------------------
\* The steps with their inputs

Login == \E password \in UnlockPasswords : handleLogin(password)
UnlockSubmit == \E password \in UnlockPasswords : handleUnlockSubmit(password)
UnlockProfile == \E ok \in BOOLEAN : handleUnlockProfile(ok)
UnlockItems == \E ok \in BOOLEAN : handleUnlockItems(ok)
DeleteAccount == \E text \in ConfirmationTexts, ok \in BOOLEAN :
                    handleDeleteAccount(text, ok)
AddItem == \E data \in ItemInputs, iv \in IVs, ok \in BOOLEAN : onAdd(data, iv, ok)
UpdateItem == \E i \in 1..Len(store.items), data \in ItemInputs, iv \in IVs,
                 ok \in BOOLEAN : handleUpdateItem(i, data, iv, ok)
ToggleFavorite == \E i \in 1..Len(store.items), ok \in BOOLEAN :
                    handleToggleFavorite(i, ok)
RemoveItem == \E i \in 1..Len(store.items), ok \in BOOLEAN : onDeleteConfirm(i, ok)
ConfigureAutoLock == \E m \in AutoLockChoices : SetPreferences(m)
TypePassword == \E value \in FormPasswords : setPassword(value)
TypeConfirmPassword == \E value \in FormPasswords : setConfirmPassword(value)
TypeConfirmationText == \E text \in UnderstandTexts : setConfirmationText(text)
RegisterConfirm == \E salt \in Salts, outcome \in SignUpOutcomes \ {"profileError"} :
                      handleRegisterConfirm(salt, outcome)
RegisterUpsert == \E salt \in Salts, outcome \in SignUpOutcomes :
                     handleRegisterUpsert(salt, outcome)

\* Signing in and unlocking
SessionSteps ==
    \/ Login
    \/ checkAuth
    \/ UnlockSubmit
    \/ UnlockProfile
    \/ UnlockItems
    \/ handleLock

\* The session of a registered account: sign in, unlock, lock, window focus,
\* sign out, delete the account, while the clock runs.
Next ==
    \/ SessionSteps
    \/ handleLogoutSubmit
    \/ handleLogoutDone
    \/ DeleteAccount
    \/ handleBlur
    \/ handleFocus
    \/ ClockAdvance

Spec == Init /\ [][Next]_vars

\* The unlocked view's mutations of the vault
NextItems ==
    \/ SessionSteps
    \/ AddItem
    \/ UpdateItem
    \/ ToggleFavorite
    \/ RemoveItem

SpecItems == Init /\ [][NextItems]_vars

\* The idle timer, second by second, and the store's preference
NextIdle ==
    \/ SessionSteps
    \/ IdleTick
    \/ resetTimer
    \/ ConfigureAutoLock

SpecIdle == Init /\ [][NextIdle]_vars

\* Every step of the vault page, the idle timer minute by minute, for an
\* account that is not locked out
InitAll ==
    /\ Init
    /\ Val(profile).failed_unlock_locked_until = NULL

NextAll ==
    \/ SessionSteps
    \/ handleLogoutSubmit
    \/ handleLogoutDone
    \/ DeleteAccount
    \/ handleBlur
    \/ handleFocus
    \/ AddItem
    \/ UpdateItem
    \/ ToggleFavorite
    \/ RemoveItem
    \/ IdleMinute
    \/ resetTimer

SpecAll == InitAll /\ [][NextAll]_vars

\* Registration, then signing in and unlocking with the new account
NextRegister ==
    \/ TypePassword
    \/ TypeConfirmPassword
    \/ handleContinue
    \/ TypeConfirmationText
    \/ goBack
    \/ RegisterConfirm
    \/ RegisterUpsert
    \/ goToLogin
    \/ SessionSteps

SpecRegister == InitRegister /\ [][NextRegister]_vars

\* ------------------------------------------------------------------------
\* Properties

\* C1: an unlock attempt with a password other than the registered master
\* password never leaves the session Unlocked: whenever the vault is unlocked,
\* the key in memory is the one derived from the registered master password.
C1_WrongPasswordNeverUnlocks ==
    store.isUnlocked => store.encryptionKey = Some(MasterKey)

\* C2: once LockoutThreshold consecutive unlock attempts with a wrong
\* password have completed, the profile's failed-attempt counter has reached
\* the threshold and its locked-until time lies in the future.
C2_LockoutAfterThreshold ==
    (profile # NULL /\ wrongStreak >= LockoutThreshold) =>
        /\ Val(profile).failed_unlock_attempts >= LockoutThreshold
        /\ Val(profile).failed_unlock_locked_until # NULL
        /\ Val(Val(profile).failed_unlock_locked_until) > now

\* C3: an Unlocked session never has more idle seconds on its timer than
\* the auto-lock duration configured in the store allows.
C3_IdleLockAtConfiguredDuration ==
    store.isUnlocked => idleTime < store.autoLockMinutes * SecondsPerMinute

TornDown(s) ==
    /\ ~s.isAuthenticated
    /\ ~s.isUnlocked
    /\ s.encryptionKey = NULL
    /\ s.userId = NULL
    /\ s.items = <<>>
    /\ s.categories = <<>>

C6_UnlockOnlyBySuccessfulUnlock ==
    [][(~store.isUnlocked /\ store'.isUnlocked) =>
          /\ unlockOp.pc = "getVaultItems"
          /\ unlockOp.derived
          /\ unlockOp.fetchedItems
          /\ unlockOp'.pc = "idle"
          /\ store'.encryptionKey = unlockOp.key
          /\ error' = error]_vars

\* Unlocked with the registered master password, the stored item decrypted
C6_Witness ==
    /\ store.isUnlocked
    /\ store.encryptionKey = Some(MasterKey)
    /\ Len(store.items) = 1
    /\ idleTime > 0

AccountLockedShown ==
    /\ error # NULL
    /\ Val(error).message = "Account locked"

\* C8: when handleUnlock reads a profile whose locked-until time is in the
\* future it ends there: no key is derived, the items are not asked for, no
\* request is sent and the store is unchanged; the error it shows is the
\* account-locked one (with at least one minute remaining) unless the
\* profile could not be read.  While that error shows the vault is locked.
C8_LockedOutUnlockStops ==
    /\ [](AccountLockedShown =>
              /\ Val(error).minutes >= 1
              /\ ~store.isUnlocked
              /\ store.encryptionKey = NULL)
    /\ [][(/\ unlockOp.pc = "getProfile"
            /\ unlockOp'.pc # "getProfile"
            /\ profile # NULL
            /\ Val(profile).failed_unlock_locked_until # NULL
            /\ Val(Val(profile).failed_unlock_locked_until) > now) =>
              /\ unlockOp'.pc = "idle"
              /\ ~unlockOp'.derived
              /\ ~unlockOp'.fetchedItems
              /\ unlockOp'.key = NULL
              /\ store' = store
              /\ wire' = wire
              /\ (unlockOp.mounted =>
                      /\ error' # NULL
                      /\ Val(error').message \in {"Account locked", "store error"})]_vars

\* An unlock was refused with the account-locked error, half a minute of the
\* lockout remaining
C8_Witness ==
    /\ AccountLockedShown
    /\ Val(error).minutes = 1
    /\ now > 0
    /\ ~unlockOp.derived
    /\ ~store.isUnlocked

AllowedColumns ==
    {"id", "user_id", "title", "ciphertext", "iv", "auth_tag", "category_id",
     "is_favorite", "last_modified"}

IsSealed(value) ==
    /\ DOMAIN value = {"sealedBy", "sealedIv", "sealed"}
    /\ value.sealedBy.kdf = "enc"

\* C9: every insert and update sent to vault_items, and every row of the
\* table, has only the columns title, ciphertext, iv and the ownership and
\* metadata columns; its ciphertext is sealed under a derived encryption key,
\* so username, password, url and notes travel only inside the ciphertext.
C9_OnlyCiphertextStored ==
    /\ \A i \in 1..Len(wire) :
          wire[i].op \in {"vault_items.insert", "vault_items.update"} =>
             /\ DOMAIN wire[i].body \subseteq AllowedColumns
             /\ ("ciphertext" \in DOMAIN wire[i].body =>
                    /\ IsSealed(wire[i].body.ciphertext)
                    /\ wire[i].body.iv = wire[i].body.ciphertext.sealedIv)
    /\ \A i \in 1..Len(vaultItems) :
          /\ DOMAIN vaultItems[i] \subseteq AllowedColumns
          /\ IsSealed(vaultItems[i].ciphertext)

\* The item of the spec's example was inserted and its row written
C9_Witness ==
    /\ Len(wire) = 1
    /\ wire[1].op = "vault_items.insert"
    /\ wire[1].body.ciphertext.sealed = Stringify(ItemA)
    /\ Len(vaultItems) > 0
    /\ vaultItems[1].ciphertext = wire[1].body.ciphertext

\* C10: no request of registration, login or unlock carries the master
\* password: a password field on the wire never holds the typed characters.
C10_MasterPasswordNeverSent ==
    \A i \in 1..Len(wire) :
        "password" \in DOMAIN wire[i].body =>
            wire[i].body.password.of.kdf # "none"

\* ------------------------------------------------------------------------
\* lib/crypto: the library functions, each evaluated on its own

\* Everything but calc
libVars == <<page, store, loading, error, idleTime, privacyBlur, hasFocus, now,
             unlockOp, logoutOp, wrongStreak, remoteVars, wire, reg, staleOp, calls,
             serialFavorite>>

\* Nothing else is going on while a library function is evaluated
Library ==
    /\ page = "login"
    /\ store = InitialStore
    /\ loading = FALSE
    /\ error = NULL
    /\ idleTime = 0
    /\ privacyBlur = FALSE
    /\ hasFocus = TRUE
    /\ session = FALSE
    /\ idpSecret = NULL
    /\ profile = NULL
    /\ vaultItems = <<>>
    /\ nextId = 1
    /\ now = 0
    /\ unlockOp = NoUnlock
    /\ logoutOp = "idle"
    /\ wire = <<>>
    /\ wrongStreak = 0
    /\ reg = InitialReg
    /\ staleOp = NoUnlock
    /\ calls = <<>>
    /\ serialFavorite = FALSE

\* Passwords by shape: n characters that cycle through one character of
\* each class in classes
ClassChars == <<"a", "A", "1", "!">>
TypedPassword(n, classes) ==
    LET picked == SelectSeq(<<1, 2, 3, 4>>, LAMBDA c : c \in classes)
    IN  [i \in 1..n |-> ClassChars[picked[((i - 1) % Len(picked)) + 1]]]

TypedPasswords ==
    {<<>>} \cup
    {TypedPassword(n, classes) :
        n \in 1..MaxTypedLength, classes \in (SUBSET {1, 2, 3, 4}) \ {{}}}

InitStrength ==
    /\ Library
    /\ \E pw \in TypedPasswords :
          calc = [fn |-> "estimatePasswordStrength", password |-> pw, score |-> NULL]

\* estimatePasswordStrength(password)
EstimateStrength ==
    /\ calc.fn = "estimatePasswordStrength"
    /\ calc.score = NULL
    /\ calc' = [calc EXCEPT !.score = Some(estimatePasswordStrength(calc.password))]
    /\ UNCHANGED libVars

NextStrength == EstimateStrength

SpecStrength == InitStrength /\ [][NextStrength]_vars

\* The score as the additive rule states it
StrengthRule(pw) ==
    10 * Cardinality({t \in {8, 12, 16, 20} : Len(pw) >= t})
    + (IF \E i \in DOMAIN pw : pw[i] \in LowerChars THEN 10 ELSE 0)
    + (IF \E i \in DOMAIN pw : pw[i] \in UpperChars THEN 10 ELSE 0)
    + (IF \E i \in DOMAIN pw : pw[i] \in DigitChars THEN 10 ELSE 0)
    + (IF \E i \in DOMAIN pw :
             pw[i] \notin LowerChars \cup UpperChars \cup DigitChars THEN 20 ELSE 0)
    + (IF /\ Len(pw) >= 16
          /\ \E i \in DOMAIN pw : pw[i] \in LowerChars
          /\ \E i \in DOMAIN pw : pw[i] \in UpperChars
          /\ \E i \in DOMAIN pw : pw[i] \in DigitChars
          /\ \E i \in DOMAIN pw :
                pw[i] \notin LowerChars \cup UpperChars \cup DigitChars
       THEN 20 ELSE 0)

\* C20: estimatePasswordStrength returns min(100, S) for the additive score
\* S (10 per length step 8, 12, 16, 20; 10 per lowercase, uppercase, digit;
\* 20 for a symbol; 20 more at length >= 16 with all four classes); the
\* result lies in 0..100, digits alone in fewer than 8 characters score below
\* 50, and 16 or more characters of all four classes score above 80.
C20_StrengthScore ==
    (calc.fn = "estimatePasswordStrength" /\ calc.score # NULL) =>
        LET pw == calc.password
            score == Val(calc.score)
        IN  /\ score = (IF StrengthRule(pw) > 100 THEN 100 ELSE StrengthRule(pw))
            /\ score \in 0..100
            /\ ((Len(pw) < 8 /\ \A i \in DOMAIN pw : pw[i] \in DigitChars)
                    => score < 50)
            /\ ((Len(pw) >= 16 /\ HasLower(pw) /\ HasUpper(pw) /\ HasDigit(pw)
                    /\ HasSymbol(pw)) => score > 80)

\* A 20-character password of all four classes was scored: the sum is 110
\* and the cap applies
C20_Witness ==
    /\ calc.fn = "estimatePasswordStrength"
    /\ calc.score = Some(100)
    /\ Len(calc.password) = 20
    /\ StrengthRule(calc.password) = 110

\* ------------------------------------------------------------------------
\* generatePassword

uppercase == <<"A","B","C","D","E","F","G","H","I","J","K","L","M",
               "N","O","P","Q","R","S","T","U","V","W","X","Y","Z">>
lowercase == <<"a","b","c","d","e","f","g","h","i","j","k","l","m",
               "n","o","p","q","r","s","t","u","v","w","x","y","z">>
numbers == <<"0","1","2","3","4","5","6","7","8","9">>
symbols == <<"!","@","#","$","%","^","&","*","(",")","_","+","-",
             "=","[","]","{","}","|",";",":",",",".","<",">","?">>

\* randomValues is what crypto.getRandomValues left in the Uint32Array
generatePassword(options, randomValues) ==
    LET built == (IF options.includeUppercase THEN uppercase ELSE <<>>)
                 \o (IF options.includeLowercase THEN lowercase ELSE <<>>)
                 \o (IF options.includeNumbers THEN numbers ELSE <<>>)
                 \o (IF options.includeSymbols THEN symbols ELSE <<>>)
        charset == IF built = <<>> THEN lowercase \o numbers ELSE built
    IN  [i \in 1..options.length |-> charset[(randomValues[i] % Len(charset)) + 1]]

\* The options of the add-item dialog, and the same with no class enabled
DialogOptions ==
    [length |-> GeneratedLength, includeUppercase |-> TRUE, includeLowercase |-> TRUE,
     includeNumbers |-> TRUE, includeSymbols |-> TRUE]
GeneratorOptions ==
    {DialogOptions,
     [length |-> GeneratedLength, includeUppercase |-> FALSE, includeLowercase |-> FALSE,
      includeNumbers |-> FALSE, includeSymbols |-> FALSE]}

\* Outcomes of the random source: 32-bit values, here those selecting the
\* first character of each class, and the same one charset length further
\* on, repeated with a period of at most MaxPattern
ClassStarts == {0, Len(uppercase), Len(uppercase) + Len(lowercase),
                Len(uppercase) + Len(lowercase) + Len(numbers)}
RandomDraws ==
    ClassStarts \cup
    {Len(uppercase) + Len(lowercase) + Len(numbers) + Len(symbols) + d : d \in ClassStarts}
RandomPatterns == UNION {[1..k -> RandomDraws] : k \in 1..MaxPattern}
getRandomValues(n, pattern) == [i \in 1..n |-> pattern[((i - 1) % Len(pattern)) + 1]]

InitGenerate ==
    /\ Library
    /\ \E options \in GeneratorOptions, pattern \in RandomPatterns :
          calc = [fn |-> "generatePassword", options |-> options,
                  randomValues |-> getRandomValues(options.length, pattern),
                  result |-> NULL]

Generate ==
    /\ calc.fn = "generatePassword"
    /\ calc.result = NULL
    /\ calc' = [calc EXCEPT !.result = Some(generatePassword(calc.options, calc.randomValues))]
    /\ UNCHANGED libVars

NextGenerate == Generate

SpecGenerate == InitGenerate /\ [][NextGenerate]_vars

\* C19: generatePassword called with length 20 and all four classes enabled
\* returns, whatever the random source produced, a password of exactly 20
\* characters with at least one uppercase letter, one lowercase letter, one
\* digit and one symbol.
C19_GeneratedHasEveryClass ==
    (calc.fn = "generatePassword" /\ calc.result # NULL /\ calc.options = DialogOptions) =>
        LET password == Val(calc.result)
        IN  /\ Len(password) = GeneratedLength
            /\ \E i \in DOMAIN password : password[i] \in UpperChars
            /\ \E i \in DOMAIN password : password[i] \in LowerChars
            /\ \E i \in DOMAIN password : password[i] \in DigitChars
            /\ \E i \in DOMAIN password :
                  password[i] \notin UpperChars \cup LowerChars \cup DigitChars

\* ------------------------------------------------------------------------
\* encryptVaultItem called several times under one key

\* crypto.getRandomValues(new Uint8Array(IV_LENGTH))
Nonces == {[i \in 1..IV_LENGTH |-> b] : b \in 0..MaxNonceByte}

CipherKeys == {deriveEncryptionKey(pw, RegisteredSalt) : pw \in UnlockPasswords}

InitCipher ==
    /\ Library
    /\ \E key \in CipherKeys :
          calc = [fn |-> "encryptVaultItem", key |-> key, inputs |-> <<>>, records |-> <<>>]

\* encryptVaultItem(payload, key): nonce is what the random source returns
\* to this call
Seal(payload, nonce) ==
    /\ calc.fn = "encryptVaultItem"
    /\ Len(calc.records) < MaxSeals
    /\ calc' = [calc EXCEPT
                  !.inputs = Append(@, [payload |-> payload, nonce |-> nonce]),
                  !.records = Append(@, encryptVaultItem(payload, calc.key, nonce))]
    /\ UNCHANGED libVars

NextCipher == \E payload \in ItemInputs, nonce \in Nonces : Seal(payload, nonce)

SpecCipher == InitCipher /\ [][NextCipher]_vars

Secrets(x) == [username |-> x.username, password |-> x.password,
               url |-> x.url, notes |-> x.notes]

\* What was sealed into a row
SealedPayload(row) == row.ciphertext.sealed.json

\* The row was sealed under key with the nonce stored beside it
SealedUnder(row, key) == row.ciphertext.sealedBy = key /\ row.ciphertext.sealedIv = row.iv

\* This step is handleUnlock completing with the vault unlocked
UnlockCompletes ==
    /\ unlockOp.pc = "getVaultItems"
    /\ unlockOp'.pc = "idle"
    /\ store'.isUnlocked

\* A step that adds a row is made while Unlocked, seals under the session
\* key what the cache then shows, and that is what the user typed
AddStoresPayloadSealed ==
    (Len(vaultItems') = Len(vaultItems) + 1) =>
        (/\ store.isUnlocked
         /\ SealedUnder(vaultItems'[1], Val(store.encryptionKey))
         /\ Len(store'.items) = Len(store.items) + 1
         /\ Secrets(SealedPayload(vaultItems'[1])) = Secrets(store'.items[1])
         /\ Secrets(store'.items[1]) \in {Secrets(P) : P \in ItemInputs})

\* An unlock installs the key of its password and the profile's salt and
\* caches every row of the user sealed under that key, with its payload
UnlockLoadsSealedRows ==
    UnlockCompletes =>
        (/\ profile # NULL
         /\ store'.encryptionKey =
               Some(deriveEncryptionKey(Val(unlockOp.password), Val(profile).kdf_salt))
         /\ \A r \in 1..Len(vaultItems) :
               (/\ vaultItems[r].user_id = Val(unlockOp.userId)
                /\ SealedUnder(vaultItems[r], Val(store'.encryptionKey)))
               => \E j \in 1..Len(store'.items) :
                     /\ store'.items[j].id = vaultItems[r].id
                     /\ Secrets(store'.items[j]) = Secrets(SealedPayload(vaultItems[r])))

IsItemWrite(msg) ==
    msg.op \in {"vault_items.insert", "vault_items.update", "vault_items.delete"}

C13_CacheChangesOnlyAfterSuccess ==
    [][/\ \A data \in ItemInputs, iv \in IVs :
             onAdd(data, iv, FALSE) => store'.items = store.items
       /\ \A i \in 1..Len(store.items), data \in ItemInputs, iv \in IVs :
             handleUpdateItem(i, data, iv, FALSE) => store'.items = store.items
       /\ \A i \in 1..Len(store.items) :
             handleToggleFavorite(i, FALSE) => store'.items = store.items
       /\ \A i \in 1..Len(store.items) :
             (/\ onDeleteConfirm(i, FALSE)
              /\ \E r \in 1..Len(vaultItems) : vaultItems[r].id = store.items[i].id)
             => store'.items = store.items
      ]_vars

\* ------------------------------------------------------------------------
\* Rows that do not decrypt

\* The rows of the user that open under key, by position in the table
Opening(rows, userId, key) ==
    {r \in 1..Len(rows) : rows[r].user_id = userId /\ SealedUnder(rows[r], key)}

\* items are exactly the rows at the positions in opening, in table order,
\* each under the row's id and with the payload sealed into the row
IsExactlyInOrder(items, rows, opening) ==
    \E f \in [1..Len(items) -> 1..Len(rows)] :
        /\ {f[j] : j \in 1..Len(items)} = opening
        /\ \A j, k \in 1..Len(items) : j < k => f[j] < f[k]
        /\ \A j \in 1..Len(items) :
              /\ items[j].id = rows[f[j]].id
              /\ Secrets(items[j]) = Secrets(SealedPayload(rows[f[j]]))

\* C14: an unlock whose fetch succeeded completes whether or not every row
\* decrypts, and the cache it installs is exactly the user's stored rows that
\* decrypt under the derived key, in Record Store order; rows that fail to
\* decrypt are left out.
C14_PartialFailureTolerance ==
    [][/\ handleUnlockItems(TRUE) => UnlockCompletes
       /\ UnlockCompletes =>
             IsExactlyInOrder(store'.items, vaultItems,
                              Opening(vaultItems, Val(unlockOp.userId),
                                      Val(store'.encryptionKey)))
      ]_vars

\* Just unlocked with two rows stored for the user, one of which does not
\* open under the session key: the cache holds the other one only
C14_Witness ==
    /\ store.isUnlocked
    /\ wire # <<>> /\ wire[1].op = "vault_items.select"
    /\ Len(getVaultItems(vaultItems, UserId)) = 2
    /\ Cardinality(Opening(vaultItems, UserId, Val(store.encryptionKey))) = 1
    /\ Len(store.items) = 1

\* ------------------------------------------------------------------------
\* Installing the key

\* What an unlock installs
KeyState(s) == <<s.encryptionKey, s.salt, s.isUnlocked, s.items>>

\* Of handleUnlock's steps only the successful completion touches what an
\* unlock installs, it installs the derived key with its salt and the flag,
\* and nothing else puts a key into the store
OnlyCompletionInstalls ==
    /\ (unlockOp'.pc # unlockOp.pc /\ ~handleUnlockItems(TRUE))
          => KeyState(store') = KeyState(store)
    /\ handleUnlockItems(TRUE)
          => (/\ store'.encryptionKey = unlockOp.key
              /\ store'.salt = unlockOp.salt
              /\ store'.isUnlocked)
    /\ (store'.encryptionKey # store.encryptionKey /\ store'.encryptionKey # NULL)
          => handleUnlockItems(TRUE)

handleUnlockAgain(password) ==
    /\ page = "vault"
    /\ store.isAuthenticated /\ ~store.isUnlocked
    /\ hasFocus
    /\ ~loading
    /\ unlockOp.pc # "idle" /\ ~unlockOp.mounted
    /\ staleOp.pc = "idle"
    /\ store.userId # NULL
    /\ staleOp' = unlockOp
    /\ error' = NULL
    /\ loading' = TRUE
    /\ unlockOp' = [NoUnlock EXCEPT !.pc = "getProfile", !.password = Some(password),
                                    !.userId = store.userId, !.mounted = TRUE]
    /\ wire' = <<[to |-> "store", op |-> "profiles.select",
                  body |-> [id |-> Val(store.userId)]]>>
    /\ UNCHANGED <<page, store, idleTime, privacyBlur, hasFocus, remoteVars, now,
                   logoutOp, wrongStreak, reg, calls, serialFavorite, calc>>

\* The earlier call, from getProfile's answer to its next await.  The
\* setters of its unmounted page do nothing.
staleUnlockProfile(ok) ==
    /\ staleOp.pc = "getProfile"
    /\ IF ~ok \/ profile = NULL \/ IsLockedOut(Val(profile), now)
       THEN /\ staleOp' = NoUnlock
            /\ UNCHANGED wire
       ELSE /\ staleOp' =
                 [staleOp EXCEPT
                     !.pc = "getVaultItems",
                     !.key = Some(deriveEncryptionKey(Val(staleOp.password),
                                                      Val(profile).kdf_salt)),
                     !.salt = Some(Val(profile).kdf_salt),
                     !.derived = TRUE, !.fetchedItems = TRUE]
            /\ wire' = <<[to |-> "store", op |-> "vault_items.select",
                          body |-> [user_id |-> Val(staleOp.userId)]]>>
    /\ UNCHANGED <<page, store, localVars, privacyBlur, hasFocus, remoteVars, now,
                   unlockOp, logoutOp, wrongStreak, reg, calls, serialFavorite, calc>>

\* The earlier call, from getVaultItems' answer to the end
staleUnlockItems(ok) ==
    /\ staleOp.pc = "getVaultItems"
    /\ staleOp' = NoUnlock
    /\ IF ~ok
       THEN UNCHANGED <<store, privacyBlur, wrongStreak>>
       ELSE LET key == Val(staleOp.key)
                rows == getVaultItems(vaultItems, Val(staleOp.userId))
            IN  /\ store' = setVaultData(setUnlocked(store, key, Val(staleOp.salt)),
                                         DecryptAll(rows, key), <<>>)
                /\ privacyBlur' = BlurAfter(store')
                /\ wrongStreak' = IF Val(staleOp.password) = PwMaster THEN 0
                                  ELSE Min(wrongStreak + 1, LockoutThreshold)
    /\ UNCHANGED <<page, localVars, hasFocus, remoteVars, now, unlockOp, logoutOp,
                   wire, reg, calls, serialFavorite, calc>>

\* Signing in, unlocking and signing out, with calls of handleUnlock that
\* outlive their page
NextReentry ==
    \/ SessionSteps
    \/ handleLogoutSubmit
    \/ handleLogoutDone
    \/ \E password \in UnlockPasswords : handleUnlockAgain(password)
    \/ \E ok \in BOOLEAN : staleUnlockProfile(ok)
    \/ \E ok \in BOOLEAN : staleUnlockItems(ok)

SpecReentry == InitAll /\ [][NextReentry]_vars

\* C16: at most one unlock attempt is in flight at any time: while one call
\* of handleUnlock is awaiting the store, no second call is running.
C16_OneUnlockInFlight ==
    ~(unlockOp.pc # "idle" /\ staleOp.pc # "idle")

\* ------------------------------------------------------------------------
\* Mutations of one item issued without waiting for each other

\* handleToggleFavorite, up to its await.  currentStatus is what the card
\* showed when the star was clicked.
handleToggleFavoriteStart(i) ==
    /\ MainView
    /\ i \in 1..Len(store.items)
    /\ Len(calls) < MaxInFlight
    /\ LET itemId == store.items[i].id
           currentStatus == store.items[i].is_favorite
           filter == [id |-> itemId, user_id |-> Val(store.userId)]
       IN  /\ wire' = <<[to |-> "store", op |-> "vault_items.update",
                         body |-> [is_favorite |-> ~currentStatus], filter |-> filter]>>
           /\ calls' = Append(calls, [handler |-> "handleToggleFavorite",
                                      filter |-> filter,
                                      fields |-> [is_favorite |-> ~currentStatus],
                                      updates |-> [is_favorite |-> ~currentStatus]])
    /\ UNCHANGED <<page, store, localVars, privacyBlur, hasFocus, remoteVars, now,
                   unlockOp, logoutOp, wrongStreak, reg, staleOp, serialFavorite, calc>>

\* handleUpdateItem, up to the await of the update call
handleUpdateItemStart(i, data, iv) ==
    /\ MainView
    /\ i \in 1..Len(store.items)
    /\ Len(calls) < MaxInFlight
    /\ store.encryptionKey # NULL
    /\ LET selectedItem == store.items[i]
           sealed == encryptVaultItem(data, Val(store.encryptionKey), iv)
           fields == UpdateFields(data, sealed, now)
           filter == [id |-> selectedItem.id, user_id |-> Val(store.userId)]
       IN  /\ wire' = <<[to |-> "store", op |-> "vault_items.update",
                         body |-> fields, filter |-> filter]>>
           /\ calls' = Append(calls, [handler |-> "handleUpdateItem",
                                      filter |-> filter, fields |-> fields,
                                      updates |-> Merge(fields, Secrets(data))])
    /\ UNCHANGED <<page, store, localVars, privacyBlur, hasFocus, remoteVars, now,
                   unlockOp, logoutOp, wrongStreak, reg, staleOp, serialFavorite, calc>>

\* The Record Store answers call k, and the handler runs to its end: the
\* row is written if the call succeeded, and then the cache.
\* serialFavorite follows the toggles that succeeded, one after the other.
mutationReturns(k, ok) ==
    /\ k \in 1..Len(calls)
    /\ calls[k].handler \in {"handleToggleFavorite", "handleUpdateItem"}
    /\ LET call == calls[k]
       IN  /\ calls' = [j \in 1..(Len(calls) - 1) |->
                            IF j < k THEN calls[j] ELSE calls[j + 1]]
           /\ IF ok
              THEN /\ vaultItems' = DbUpdate(vaultItems, call.filter.id,
                                             call.filter.user_id, call.fields)
                   /\ store' = updateItem(store, call.filter.id, call.updates)
                   /\ UNCHANGED error
              ELSE /\ error' = IF call.handler = "handleUpdateItem"
                               THEN Some([message |-> "Failed to update item"])
                               ELSE error
                   /\ UNCHANGED <<store, vaultItems>>
           /\ serialFavorite' = IF ok /\ call.handler = "handleToggleFavorite"
                                THEN ~serialFavorite ELSE serialFavorite
    /\ UNCHANGED <<page, loading, idleTime, privacyBlur, hasFocus, session, idpSecret,
                   profile, nextId, now, unlockOp, logoutOp, wire, wrongStreak, reg,
                   staleOp, calc>>

\* A vault holding one item
InitAsync == InitAll /\ vaultItems = <<SeedRow>>

NextAsync ==
    \/ SessionSteps
    \/ \E i \in 1..Len(store.items) : handleToggleFavoriteStart(i)
    \/ \E i \in 1..Len(store.items), data \in ItemInputs, iv \in IVs :
          handleUpdateItemStart(i, data, iv)
    \/ \E k \in 1..Len(calls), ok \in BOOLEAN : mutationReturns(k, ok)

SpecAsync == InitAsync /\ [][NextAsync]_vars

\* C17: mutations of one item are serialized so that no update is lost: once
\* every call has returned, the item's favourite flag in the Record Store and
\* in the cache is what applying the toggles that succeeded one after the
\* other gives (updates of the item leave the flag alone).
C17_NoLostUpdate ==
    calls = <<>> =>
        /\ \A r \in 1..Len(vaultItems) : vaultItems[r].is_favorite = serialFavorite
        /\ \A j \in 1..Len(store.items) : store.items[j].is_favorite = serialFavorite

\* ------------------------------------------------------------------------
\* Registration

\* The master password passes the three checks of the credentials step
PassesChecks ==
    /\ reg.password = reg.confirmPassword
    /\ Len(reg.password) >= MinPasswordLength
    /\ estimatePasswordStrength(reg.password) >= MinPasswordStrength

\* This step sends signUp to the Identity Provider or creates the account
SignsUp ==
    \/ wire' # wire /\ \E m \in 1..Len(wire') : wire'[m].op = "signUp"
    \/ idpSecret' # idpSecret /\ idpSecret' # NULL

\* signUp is sent from the warning step only, with "I UNDERSTAND" typed,
\* and the warning step is entered only by a Continue on a password that
\* passes the checks
SignUpOnlyAfterChecks ==
    /\ SignsUp => (/\ reg.step = "warning"
                   /\ reg.confirmationText = "I UNDERSTAND"
                   /\ PassesChecks)
    /\ (reg.step # "warning" /\ reg'.step = "warning")
          => (reg.step = "credentials" /\ reg'.password = reg.password /\ PassesChecks)

C22_ShortPasswordGetsLengthError ==
    [][(Len(reg.password) < MinPasswordLength /\ handleContinue)
          => (/\ reg'.error = Some("Password must be at least 12 characters")
              /\ reg'.step = "credentials")
      ]_vars

\* ------------------------------------------------------------------------
\* Privacy blur

\* The marker follows the focus events of the vault page
MarkerFollowsFocus ==
    /\ (page = "vault" /\ hasFocus /\ ~hasFocus') => privacyBlur'
    /\ (~hasFocus /\ hasFocus') => ~privacyBlur'

\* C23: whenever the window loses focus on the vault page the privacy-blur
\* marker becomes set, whenever it regains focus the marker is cleared, and
\* after any sequence of blur, focus, lock and unlock events the marker is
\* never set while the window has focus.
C23_BlurMarkerFollowsFocus ==
    /\ privacyBlur => ~hasFocus
    /\ [][MarkerFollowsFocus]_vars

\* ------------------------------------------------------------------------
\* What the Identity Provider is given

\* A request that presents a password to the Identity Provider
PresentsSecret(msg) ==
    msg.to = "idp" /\ msg.op \in {"signUp", "signInWithPassword"}

\* C24: the secret register and login present to the Identity Provider is,
\* for every password and salt, a value different from the vault's Verifier
\* (the base64 SHA-256 hash of the verification key).
C24_AuthSecretDistinctFromVerifier ==
    \A m \in 1..Len(wire) :
        PresentsSecret(wire[m]) =>
            \A pw \in FormPasswords \cup UnlockPasswords, salt \in Salts :
                wire[m].body.password # deriveKeys(pw, salt).verificationKey

\* ------------------------------------------------------------------------
\* The idle counter

\* A tick adds one or, at the threshold, locks and starts over; activity
\* sets the counter to zero; the counter rests while Locked; and the
\* counter an unlock starts from is zero, so that at every tick it holds
\* the number of ticks since the most recent activity or unlock
CountsIdleTicks ==
    /\ IdleTick =>
          IF idleTime + 1 >= AutoLockMinutes * SecondsPerMinute
          THEN ~store'.isUnlocked /\ idleTime' = 0
          ELSE store'.isUnlocked /\ idleTime' = idleTime + 1
    /\ resetTimer => idleTime' = 0
    /\ (~store.isUnlocked /\ ~store'.isUnlocked) => idleTime' = idleTime
    /\ (store.isUnlocked /\ ~store'.isUnlocked /\ idleTime' # idleTime) => IdleTick
    /\ (~store.isUnlocked /\ store'.isUnlocked) => idleTime' = 0

\* C25: while Unlocked the idle counter goes up by exactly one per tick,
\* every activity signal sets it to zero, it does not advance while Locked,
\* and the auto-lock never fires fewer than the threshold number of ticks
\* after the most recent activity signal or the most recent unlock.
C25_IdleCounter ==
    [][CountsIdleTicks]_vars

\* ------------------------------------------------------------------------
\* Mutations that return after a lock

\* AddItemDialog's onAdd, up to the await of the insert call
onAddStart(data, iv) ==
    /\ MainView
    /\ store.encryptionKey # NULL
    /\ Len(calls) < MaxInFlight
    /\ nextId + Len(SelectSeq(calls, LAMBDA c : c.handler = "onAdd")) <= MaxAdds
    /\ LET sealed == encryptVaultItem(data, Val(store.encryptionKey), iv)
           record == InsertRecord(Val(store.userId), data, sealed)
       IN  /\ wire' = <<[to |-> "store", op |-> "vault_items.insert", body |-> record]>>
           /\ calls' = Append(calls, [handler |-> "onAdd", record |-> record,
                                      data |-> data])
    /\ UNCHANGED <<page, store, localVars, privacyBlur, hasFocus, remoteVars, now,
                   unlockOp, logoutOp, wrongStreak, reg, staleOp, serialFavorite, calc>>

\* The Record Store answers the insert of call k, and onAdd runs to its end
onAddReturns(k, ok) ==
    /\ k \in 1..Len(calls)
    /\ calls[k].handler = "onAdd"
    /\ calls' = [j \in 1..(Len(calls) - 1) |-> IF j < k THEN calls[j] ELSE calls[j + 1]]
    /\ IF ok
       THEN LET record == calls[k].record
                cached == Merge([id |-> Uuid(nextId), title |-> record.title,
                                 ciphertext |-> record.ciphertext, iv |-> record.iv,
                                 auth_tag |-> "", category_id |-> NULL,
                                 is_favorite |-> FALSE, last_accessed |-> now,
                                 last_modified |-> now, created_at |-> now],
                                Secrets(calls[k].data))
            IN  /\ vaultItems' = DbInsert(vaultItems, nextId, record)
                /\ nextId' = nextId + 1
                /\ store' = addItem(store, cached)
       ELSE UNCHANGED <<store, vaultItems, nextId>>
    /\ UNCHANGED <<page, localVars, privacyBlur, hasFocus, session, idpSecret, profile,
                   now, unlockOp, logoutOp, wire, wrongStreak, reg, staleOp,
                   serialFavorite, calc>>

\* Mutations in flight while the vault is locked by hand or by the timer
NextLate ==
    \/ SessionSteps
    \/ IdleMinute
    \/ \E data \in ItemInputs, iv \in IVs : onAddStart(data, iv)
    \/ \E k \in 1..Len(calls), ok \in BOOLEAN : onAddReturns(k, ok)
    \/ \E i \in 1..Len(store.items) : handleToggleFavoriteStart(i)
    \/ \E k \in 1..Len(calls), ok \in BOOLEAN : mutationReturns(k, ok)

SpecLate == InitAll /\ [][NextLate]_vars

\* C26: in every reachable state, also when a mutation started while
\* Unlocked returns after a lock, isUnlocked = false implies that the store
\* holds no key and the decrypted item cache is empty.
C26_LockedHoldsNothing ==
    ~store.isUnlocked => (store.encryptionKey = NULL /\ store.items = <<>>)

\* ------------------------------------------------------------------------
\* Unlocked sessions and the signed-in user

\* C27: in every reachable state isUnlocked = true implies isAuthenticated =
\* true and a userId; an unlock still in flight when Sign Out happens does
\* not later install a key or items into the logged-out session.
C27_UnlockedImpliesAuthenticated ==
    store.isUnlocked => (store.isAuthenticated /\ store.userId # NULL)

\* C28: whenever the vault is Unlocked and no mutation is in flight, every
\* cached item carries the id of a record of that user in the Record Store,
\* and that record has the same ciphertext, nonce, title and favourite flag.
C28_CacheAgreesWithStore ==
    (store.isUnlocked /\ store.userId # NULL /\ calls = <<>>) =>
        \A i \in 1..Len(store.items) :
            \E j \in 1..Len(vaultItems) :
                /\ vaultItems[j].id = store.items[i].id
                /\ vaultItems[j].user_id = Val(store.userId)
                /\ vaultItems[j].ciphertext = store.items[i].ciphertext
                /\ vaultItems[j].iv = store.items[i].iv
                /\ vaultItems[j].title = store.items[i].title
                /\ vaultItems[j].is_favorite = store.items[i].is_favorite

\* C29: every ciphertext written to the Record Store, after any sequence of
\* unlock, add, update, lock and logout, opens with the key derived from the
\* account's registered master password and stored salt.
C29_StoredCiphertextOpensWithMasterKey ==
    \A j \in 1..Len(vaultItems) :
        vaultItems[j].user_id = UserId =>
            CanDecrypt(vaultItems[j].ciphertext, vaultItems[j].iv, MasterKey)

\* The secret handleLogin presents for a password and the salt it fetched
LoginSecret(password, salt) ==
    Slice(deriveKeys(password, salt).verificationKey, AuthSecretLength)

\* A registration signs up with the secret a login with the same password and
\* the stored salt will present
SignUpPresentsLoginSecret ==
    \A salt \in Salts, outcome \in SignUpOutcomes :
        (handleRegisterConfirm(salt, outcome) \/ handleRegisterUpsert(salt, outcome))
            => (wire'[1].body.password = LoginSecret(reg.password, salt))

\* Once the account is registered, a login with the registration password
\* signs in
RegisteredPasswordSignsIn ==
    (/\ reg.step \in {"success", "processing"}
     /\ idpSecret # NULL
     /\ profile # NULL
     /\ handleLogin(reg.password))
        => (session' /\ page' = "vault")

\* C30: for every password and salt the secret login presents at signIn (the
\* first 60 characters of the verifier) is the secret register presented at
\* signUp, so a login with the registration password is accepted.
C30_LoginPresentsRegisteredSecret ==
    [][SignUpPresentsLoginSecret /\ RegisteredPasswordSignsIn]_vars
====
